---- MODULE Spec2Model ----
(***************************************************************************)
(* Model of deepseeked.py: a reverse proxy in front of an Ollama server    *)
(* that strips <think>...</think> reasoning from chat/generate responses.  *)
(*                                                                         *)
(* Python strings are modelled as sequences of one-character strings, so   *)
(* that `in`, find, split, strip and the fence regular expression are      *)
(* computed character by character as the interpreter computes them.       *)
(* Indices are 0-based as in Python; Slice(s, a, b) is s[a:b].             *)
(***************************************************************************)
EXTENDS Integers, Sequences, FiniteSets, TLC

(***************************************************************************)
(* Bounds of the model.                                                    *)
(***************************************************************************)
\* number of pieces concatenated into one text handed to the tag filter
MaxPieces == 3

\* number of lines the upstream sends on one stream
MaxRecords == 3

\* number of pieces concatenated into one non-streaming response text
MaxCleanPieces == 3

\* length up to which the text of the span-stripping loop may grow
MaxContentLen == 26

\* records read from the upstream while the two connections are followed
MaxNetRecords == 2

\* lines each of two concurrent streams reads
MaxTwoRecords == 2

(***************************************************************************)
(* Literals of the source.                                                 *)
(***************************************************************************)
OPEN_TAG == <<"<", "t", "h", "i", "n", "k", ">">>

CLOSE_TAG == <<"<", "/", "t", "h", "i", "n", "k", ">">>

\* one backtick character
BT == "BACKTICK"

FENCE == <<BT, BT, BT>>

JSON_TAG == <<"j", "s", "o", "n">>

NL == "\n"

\* characters removed by str.strip() and matched by \s
Whitespace == {" ", NL}

EMPTY == << >>

(***************************************************************************)
(* Python string primitives.                                               *)
(***************************************************************************)
Min(a, b) == IF a <= b THEN a ELSE b

Max(a, b) == IF a >= b THEN a ELSE b

\* s[a:b] for 0 <= a, clamped like Python slicing
Slice(s, a, b) ==
  LET lo == Max(a, 0)
      hi == Min(b, Len(s))
  IN  IF hi <= lo THEN EMPTY ELSE [i \in 1..(hi - lo) |-> s[lo + i]]

\* s[a:]
SliceFrom(s, a) == Slice(s, a, Len(s))

\* does m occur in s at 0-based offset i
StartsAt(s, i, m) ==
  /\ i >= 0
  /\ i + Len(m) <= Len(s)
  /\ \A k \in 1..Len(m) : s[i + k] = m[k]

\* s.find(m, from): lowest offset >= from where m occurs, -1 when absent
FindFrom(s, m, from) ==
  LET hits == {i \in from..(Len(s) - Len(m)) : StartsAt(s, i, m)}
  IN  IF hits = {} THEN -1 ELSE CHOOSE i \in hits : \A j \in hits : i <= j

\* s.find(m)
Find(s, m) == FindFrom(s, m, 0)

\* m in s
Contains(s, m) == Find(s, m) # -1

\* s.split(m): the parts between the non-overlapping occurrences of m,
\* scanned left to right
RECURSIVE Split(_, _)
Split(s, m) ==
  LET i == Find(s, m)
  IN  IF i = -1 THEN <<s>>
      ELSE <<Slice(s, 0, i)>> \o Split(SliceFrom(s, i + Len(m)), m)

RECURSIVE LStrip(_)
LStrip(s) ==
  IF s # EMPTY /\ s[1] \in Whitespace THEN LStrip(Tail(s)) ELSE s

RECURSIVE RStrip(_)
RStrip(s) ==
  IF s # EMPTY /\ s[Len(s)] \in Whitespace
  THEN RStrip(SubSeq(s, 1, Len(s) - 1)) ELSE s

\* s.strip()
Strip(s) == RStrip(LStrip(s))

(***************************************************************************)
(* re.search(r'FENCE(?:json)?\s*(.*?)\s*FENCE', s, re.DOTALL), where FENCE *)
(* stands for the three backticks of the source.                           *)
(*                                                                         *)
(* The leftmost match starts at the first fence.  The optional tag is      *)
(* greedy, and the lazy group stops at the first fence that follows, with  *)
(* the white space on both sides of the group taken by the two \s*.        *)
(* The result is [matched, group1].                                        *)
(***************************************************************************)
\* the same search with a greedy group (.*): it runs to the last fence
FenceSearchGreedy(s) ==
  LET i == Find(s, FENCE)
      j == IF StartsAt(s, i + 3, JSON_TAG) THEN i + 7 ELSE i + 3
      ends == {k \in j..Len(s) : StartsAt(s, k, FENCE)}
  IN  IF i = -1 \/ ends = {}
      THEN [matched |-> FALSE, group1 |-> EMPTY]
      ELSE LET k == CHOOSE e \in ends : \A f \in ends : f <= e
           IN  [matched |-> TRUE, group1 |-> RStrip(LStrip(Slice(s, j, k)))]

FenceSearch(s) ==
  LET i == Find(s, FENCE)
      j == IF StartsAt(s, i + 3, JSON_TAG) THEN i + 7 ELSE i + 3
      k == IF i = -1 THEN -1 ELSE FindFrom(s, FENCE, j)
  IN  IF i = -1 \/ k = -1
      THEN [matched |-> FALSE, group1 |-> EMPTY]
      ELSE [matched |-> TRUE, group1 |-> RStrip(LStrip(Slice(s, j, k)))]

(***************************************************************************)
(* process_thinking_content(message_content, thinking_started) on a str.   *)
(* Returns [text, thinking]: the retained text and the new flag.           *)
(***************************************************************************)
Unfenced(message_content) ==
  IF Contains(message_content, FENCE)
  THEN LET json_match == FenceSearch(message_content)
       IN  IF json_match.matched THEN Strip(json_match.group1)
           ELSE message_content
  ELSE message_content

\* lines 26-44 without the thinking-mode test of lines 40-42
TagRulesNoThinkingTest(mc, thinking_started) ==
  IF Contains(mc, OPEN_TAG)
  THEN [text |-> Split(mc, OPEN_TAG)[1], thinking |-> TRUE]
  ELSE IF Contains(mc, CLOSE_TAG)
  THEN [text |-> Split(mc, CLOSE_TAG)[Len(Split(mc, CLOSE_TAG))],
        thinking |-> FALSE]
  ELSE [text |-> mc, thinking |-> thinking_started]

\* lines 26-44 with the closing-tag test placed before the opening-tag test
TagRulesCloseFirst(mc, thinking_started) ==
  IF Contains(mc, CLOSE_TAG)
  THEN [text |-> Split(mc, CLOSE_TAG)[Len(Split(mc, CLOSE_TAG))],
        thinking |-> FALSE]
  ELSE IF Contains(mc, OPEN_TAG)
  THEN [text |-> Split(mc, OPEN_TAG)[1], thinking |-> TRUE]
  ELSE IF thinking_started
  THEN [text |-> EMPTY, thinking |-> thinking_started]
  ELSE [text |-> mc, thinking |-> thinking_started]

\* lines 26-44 with split('</think>')[1] in place of [-1]
TagRulesFirstClose(mc, thinking_started) ==
  IF Contains(mc, OPEN_TAG)
  THEN [text |-> Split(mc, OPEN_TAG)[1], thinking |-> TRUE]
  ELSE IF Contains(mc, CLOSE_TAG)
  THEN [text |-> Split(mc, CLOSE_TAG)[2], thinking |-> FALSE]
  ELSE IF thinking_started
  THEN [text |-> EMPTY, thinking |-> thinking_started]
  ELSE [text |-> mc, thinking |-> thinking_started]

\* lines 26-44, on the text left by the fence clean-up
TagRules(mc, thinking_started) ==
  IF Contains(mc, OPEN_TAG)
  THEN [text |-> Split(mc, OPEN_TAG)[1], thinking |-> TRUE]
  ELSE IF Contains(mc, CLOSE_TAG)
  THEN [text |-> Split(mc, CLOSE_TAG)[Len(Split(mc, CLOSE_TAG))],
        thinking |-> FALSE]
  ELSE IF thinking_started
  THEN [text |-> EMPTY, thinking |-> thinking_started]
  ELSE [text |-> mc, thinking |-> thinking_started]

process_thinking_content(message_content, thinking_started) ==
  IF message_content = EMPTY
  THEN [text |-> EMPTY, thinking |-> thinking_started]
  ELSE TagRules(Unfenced(message_content), thinking_started)

\* the test of line 48 alone, without the strip of line 50
is_falsy_content(message_content) == message_content = EMPTY

\* is_empty_content(message_content) on a str
is_empty_content(message_content) ==
  IF message_content = EMPTY THEN TRUE ELSE Strip(message_content) = EMPTY

(***************************************************************************)
(* Upstream lines and the JSON values they decode to.                      *)
(*                                                                         *)
(* A line is [kind, fmt, data].  kind tells what chunk.decode('utf-8') and *)
(* json.loads make of the bytes:                                           *)
(*   "empty"    b'' (iter_lines yields it for a blank line)                *)
(*   "space"    white space only: decodes, json.loads raises               *)
(*              JSONDecodeError                                            *)
(*   "notjson"  decodes, json.loads raises JSONDecodeError                 *)
(*   "badutf8"  decode raises UnicodeDecodeError                           *)
(*   "json"     json.loads returns data                                    *)
(* fmt is the layout of the bytes: "compact" as the upstream writes them   *)
(* (no space after ':' and ','), "spaced" as json.dumps writes them.       *)
(* data is [top, msg, ctype, text, done]:                                  *)
(*   top   "obj" | "list" | "int"      type of the decoded value           *)
(*   msg   "absent" | "null" | "str" | "obj"   data['message']             *)
(*   ctype "absent" | "null" | "int" | "list" | "str"                      *)
(*                                          data['message']['content']     *)
(*   text  the characters of the content when ctype = "str"                *)
(*   done  whether the object carries "done": true                         *)
(***************************************************************************)
Data(top, msg, ctype, text, done) ==
  [top |-> top, msg |-> msg, ctype |-> ctype, text |-> text, done |-> done]

NoData == Data("none", "absent", "absent", EMPTY, FALSE)

Line(kind, fmt, data) == [kind |-> kind, fmt |-> fmt, data |-> data]

\* {"message":{"content":text}} as the upstream writes it
ContentLine(text) == Line("json", "compact", Data("obj", "obj", "str", text, FALSE))

\* {"done":true}
DoneLine(fmt) == Line("json", fmt, Data("obj", "absent", "absent", EMPTY, TRUE))

T_a == <<"a">>

T_b == <<"b">>

T_space == <<" ">>

T_thi == <<"a", "<", "t", "h", "i">>

T_secret == <<"s", "e", "c", "r", "e", "t">>

T_nk == <<"n", "k", ">">> \o T_secret \o CLOSE_TAG \o T_b

T_span == OPEN_TAG \o <<"x">> \o CLOSE_TAG \o T_b

\* the JSON answer {"x":1}
T_x1 == <<"{", "\"", "x", "\"", ":", "1", "}">>

T_fenced == FENCE \o JSON_TAG \o <<NL>> \o T_x1 \o <<NL>> \o FENCE

\* text, then an opening marker
T_leak == T_a \o OPEN_TAG

\* a fenced block that holds an opening marker
T_fence_open == FENCE \o T_a \o OPEN_TAG \o T_b \o FENCE

\* an opening marker in front of a fenced block
T_open_fence == OPEN_TAG \o FENCE \o T_a \o FENCE

\* contents of the content records the upstream sends
StreamTexts ==
  {EMPTY, T_a, T_space, OPEN_TAG, CLOSE_TAG, T_secret, T_thi, T_nk, T_span,
   T_fenced, T_leak, T_fence_open, T_open_fence}

\* the lines the upstream sends
Chunks ==
  {ContentLine(t) : t \in StreamTexts}
    \cup {DoneLine("compact"), DoneLine("spaced")}
    \cup {Line("json", "compact", Data("obj", "obj", "absent", EMPTY, FALSE)),
          Line("json", "compact", Data("obj", "str", "absent", EMPTY, FALSE)),
          Line("json", "compact", Data("obj", "null", "absent", EMPTY, FALSE)),
          Line("json", "compact", Data("list", "absent", "absent", EMPTY, FALSE)),
          Line("json", "compact", Data("int", "absent", "absent", EMPTY, FALSE)),
          Line("json", "compact", Data("obj", "obj", "null", EMPTY, FALSE)),
          Line("json", "compact", Data("obj", "obj", "int", EMPTY, FALSE)),
          Line("json", "compact", Data("obj", "obj", "list", EMPTY, FALSE))}
    \cup {Line("empty", "compact", NoData), Line("space", "compact", NoData),
          Line("notjson", "compact", NoData), Line("badutf8", "compact", NoData)}

\* chunk.decode('utf-8') then json.loads: "ok", "JSONDecodeError" or
\* "UnicodeDecodeError"
json_loads(chunk) ==
  CASE chunk.kind = "json" -> "ok"
    [] chunk.kind = "badutf8" -> "UnicodeDecodeError"
    [] OTHER -> "JSONDecodeError"

\* json.dumps(data): the bytes of data in the layout json.dumps writes
json_dumps(data) == Line("json", "spaced", data)

\* 'message' in data: "True", "False" or "TypeError"
HasMessage(data) ==
  CASE data.top = "obj" -> IF data.msg # "absent" THEN "True" ELSE "False"
    [] data.top = "list" -> "False"
    [] OTHER -> "TypeError"

\* 'content' in data['message']: key lookup in a dict, substring test in a
\* str, TypeError on None
HasContent(data) ==
  CASE data.msg = "obj" -> IF data.ctype # "absent" THEN "True" ELSE "False"
    [] data.msg = "str" -> "False"
    [] OTHER -> "TypeError"

(***************************************************************************)
(* One iteration of the for loop of generate() on one chunk.               *)
(* Returns [act, line, thinking, retained]:                                *)
(*   act "skip"  nothing is yielded (falsy chunk, or continue)             *)
(*       "emit"  line is yielded, followed by b'\n'                        *)
(*       "raise" an exception other than JSONDecodeError leaves the        *)
(*               generator                                                 *)
(*   retained is cleaned_content when the filter returned a str.           *)
(***************************************************************************)
Outcome(act, line, thinking, retained) ==
  [act |-> act, line |-> line, thinking |-> thinking, retained |-> retained]

\* lines 115-123 and the failures of lines 111-116, r being what
\* process_thinking_content returns for a str content
ContentOutcome(chunk, thinking_started, r) ==
  IF chunk.data.ctype = "str"
  THEN IF is_empty_content(r.text)
       THEN Outcome("skip", chunk, r.thinking, r.text)
       ELSE Outcome("emit", json_dumps([chunk.data EXCEPT !.text = r.text]),
                    r.thinking, r.text)
  \* None is falsy: line 17 returns "", which is empty
  ELSE IF chunk.data.ctype = "null"
  THEN Outcome("skip", chunk, thinking_started, EMPTY)
  \* a number: the FENCE in message_content test raises TypeError
  ELSE IF chunk.data.ctype = "int"
  THEN Outcome("raise", chunk, thinking_started, EMPTY)
  \* a non-empty list: the three in tests are False; line 42 returns ""
  \* in thinking mode, else line 44 returns the list and
  \* is_empty_content raises AttributeError on list.strip
  ELSE IF thinking_started
  THEN Outcome("skip", chunk, thinking_started, EMPTY)
  ELSE Outcome("raise", chunk, thinking_started, EMPTY)

\* lines 108-123 for a record that has data['message']['content']
ContentStep(chunk, thinking_started) ==
  ContentOutcome(chunk, thinking_started,
                 process_thinking_content(chunk.data.text, thinking_started))

GenerateStep(chunk, thinking_started) ==
  IF chunk.kind = "empty"
  THEN Outcome("skip", chunk, thinking_started, EMPTY)
  ELSE IF json_loads(chunk) = "JSONDecodeError"
  THEN Outcome("emit", chunk, thinking_started, EMPTY)
  ELSE IF json_loads(chunk) = "UnicodeDecodeError"
  THEN Outcome("raise", chunk, thinking_started, EMPTY)
  ELSE IF HasMessage(chunk.data) = "TypeError"
  THEN Outcome("raise", chunk, thinking_started, EMPTY)
  ELSE IF HasMessage(chunk.data) = "False"
  THEN Outcome("emit", chunk, thinking_started, EMPTY)
  ELSE IF HasContent(chunk.data) = "TypeError"
  THEN Outcome("raise", chunk, thinking_started, EMPTY)
  ELSE IF HasContent(chunk.data) = "False"
  THEN Outcome("emit", chunk, thinking_started, EMPTY)
  ELSE ContentStep(chunk, thinking_started)

(***************************************************************************)
(* clean_response_content(content), line by line.                          *)
(***************************************************************************)
\* the condition of the while loop, line 58
BothTags(content) == Contains(content, OPEN_TAG) /\ Contains(content, CLOSE_TAG)

\* the body of the while loop, lines 59-61
StripSpan(content) ==
  LET start == Find(content, OPEN_TAG)
      end == Find(content, CLOSE_TAG) + Len(CLOSE_TAG)
  IN  Slice(content, 0, start) \o SliceFrom(content, end)

RECURSIVE Join(_, _)
Join(parts, sep) ==
  IF parts = << >> THEN EMPTY
  ELSE IF Len(parts) = 1 THEN parts[1]
  ELSE parts[1] \o sep \o Join(Tail(parts), sep)

\* content.replace('\n\n', '\n'): one pass over the non-overlapping pairs
RECURSIVE ReplaceDoubleNewline(_)
ReplaceDoubleNewline(content) ==
  IF Len(content) < 2 THEN content
  ELSE IF content[1] = NL /\ content[2] = NL
  THEN <<NL>> \o ReplaceDoubleNewline(SliceFrom(content, 2))
  ELSE <<content[1]>> \o ReplaceDoubleNewline(Tail(content))

\* '\n'.join(filter(None, content.split('\n'))), line 64
CollapseNewlines(content) ==
  Join(SelectSeq(Split(content, <<NL>>), LAMBDA part : part # EMPTY), <<NL>>)

\* the value returned once the loop is left: line 55 for a falsy content,
\* lines 64-65 otherwise
CleanResult(content) ==
  IF content = EMPTY THEN content ELSE Strip(CollapseNewlines(content))

(***************************************************************************)
(* Texts built from pieces.                                                *)
(***************************************************************************)
RECURSIVE Concat(_)
Concat(parts) ==
  IF parts = << >> THEN EMPTY ELSE parts[1] \o Concat(Tail(parts))

\* every concatenation of at most n pieces
TextsOf(pieces, n) ==
  UNION {{Concat(ps) : ps \in [1..k -> pieces]} : k \in 0..n}

FilterPieces ==
  {T_a, T_space, <<NL>>, OPEN_TAG, CLOSE_TAG, FENCE, JSON_TAG,
   <<"<", "t", "h", "i">>, <<"n", "k", ">">>}

\* texts handed to process_thinking_content
FilterTexts ==
  TextsOf(FilterPieces, MaxPieces)
    \cup {T_fenced, T_nk, T_span,
          CLOSE_TAG \o T_a \o CLOSE_TAG \o T_space \o T_a}

CleanPieces == {T_a, T_space, <<NL>>, OPEN_TAG, CLOSE_TAG}

T_blanklines == T_a \o <<NL, NL, NL>> \o T_b

\* texts of a non-streaming response
CleanTexts ==
  TextsOf(CleanPieces, MaxCleanPieces)
    \cup {T_blanklines, T_span, T_span \o T_span, CLOSE_TAG \o T_a \o OPEN_TAG}

(***************************************************************************)
(* Non-streaming upstream bodies: [shape, rtype, text].                    *)
(*   shape "response"  a JSON object with a 'response' key (generate)      *)
(*         "message"   a JSON object with message.content (chat)           *)
(*         "notjson"   response.json() raises                              *)
(*   rtype the type of the text payload: "str", "null" or "int"            *)
(***************************************************************************)
Body(shape, rtype, text) == [shape |-> shape, rtype |-> rtype, text |-> text]

NoBody == Body("none", "null", EMPTY)

Bodies ==
  {Body("response", "str", t) : t \in CleanTexts}
    \cup {Body("message", "str", t) : t \in {T_a, T_span}}
    \cup {Body("response", "null", EMPTY), Body("response", "int", EMPTY),
          Body("notjson", "null", EMPTY)}

\* the Response handed to the client: [kind, body]
\*   kind "json" json.dumps(data); "raw" response.content with the upstream
\*   status; "404"; "none" while there is none
Resp(kind, b) == [kind |-> kind, body |-> b]

(***************************************************************************)
(* State.                                                                  *)
(***************************************************************************)
VARIABLES
  pc,                \* where the handler is
  path,              \* the <path> of /api/<path>
  is_streaming,      \* request_data.get('stream', True)
  thinking_started,  \* the flag of generate()
  log,               \* the chunks read so far, with what each iteration did
  out,               \* the lines yielded so far
  body,              \* the non-streaming upstream body
  content,           \* the text the filter or the cleanup works on
  resp,              \* the non-streaming Response
  passes,            \* results of successive clean_response_content calls
  fres,              \* result of process_thinking_content
  posts,             \* number of requests.post calls made
  up_status,         \* response.status_code, 0 while there is no response
  up_conn,           \* the upstream connection
  client,            \* the downstream client: "here" or "gone"
  status,            \* status of the Response handed to the client, 0 if none
  streams            \* two streaming responses served at the same time

netvars == <<posts, up_status, up_conn, client, status>>

vars ==
  <<pc, path, is_streaming, thinking_started, log, out, body, content, resp,
    passes, fres, netvars, streams>>

\* no request was sent upstream and no second stream is served
NetIdle ==
  /\ posts = 0
  /\ up_status = 0
  /\ up_conn = "none"
  /\ client = "here"
  /\ status = 0
  /\ streams = << >>

NoRes == [text |-> EMPTY, thinking |-> FALSE]

(***************************************************************************)
(* proxy_api(path)                                                         *)
(***************************************************************************)
Init ==
  /\ pc = "start"
  /\ path = "none"
  /\ is_streaming = TRUE
  /\ thinking_started = FALSE
  /\ log = << >>
  /\ out = << >>
  /\ body = NoBody
  /\ content = EMPTY
  /\ resp = Resp("none", NoBody)
  /\ passes = << >>
  /\ fres = NoRes
  /\ NetIdle

\* lines 69-70
NotFound ==
  /\ pc = "start"
  /\ \E p \in {"tags"} : path' = p
  /\ resp' = Resp("404", NoBody)
  /\ pc' = "responded"
  /\ UNCHANGED <<is_streaming, thinking_started, log, out, body, content,
                 passes, fres>>
  /\ UNCHANGED <<netvars, streams>>

\* lines 73-81 and 97-99, 132-141: a streaming request; the generator
\* starts with thinking_started = False
StartStream ==
  /\ pc = "start"
  /\ \E p \in {"generate", "chat"} : path' = p
  /\ is_streaming' = TRUE
  /\ thinking_started' = FALSE
  /\ pc' = "streaming"
  /\ UNCHANGED <<log, out, body, content, resp, passes, fres>>
  /\ UNCHANGED <<netvars, streams>>

\* one iteration of the for loop, lines 100-130
GenerateChunk ==
  /\ pc = "streaming"
  /\ Len(log) < MaxRecords
  /\ \E chunk \in Chunks :
       \E o \in {GenerateStep(chunk, thinking_started)} :
           /\ log' = Append(log, [line |-> chunk, before |-> thinking_started,
                                  after |-> o.thinking, act |-> o.act,
                                  retained |-> o.retained])
           /\ thinking_started' = o.thinking
           /\ out' = IF o.act = "emit"
                     THEN Append(out, [src |-> Len(log) + 1, line |-> o.line,
                                       nl |-> 1])
                     ELSE out
           /\ pc' = IF o.act = "raise" THEN "crashed" ELSE "streaming"
  /\ UNCHANGED <<path, is_streaming, body, content, resp, passes, fres>>
  /\ UNCHANGED <<netvars, streams>>

\* iter_lines is exhausted: the for loop and the generator end
GenerateEnd ==
  /\ pc = "streaming"
  /\ pc' = "done"
  /\ UNCHANGED <<path, is_streaming, thinking_started, log, out, body,
                 content, resp, passes, fres>>
  /\ UNCHANGED <<netvars, streams>>

\* lines 84-95 up to the call of clean_response_content
NonStreaming ==
  /\ pc = "start"
  /\ \E p \in {"generate", "chat"} : path' = p
  /\ is_streaming' = FALSE
  /\ \E b \in Bodies :
       /\ body' = b
       /\ CASE b.shape = "notjson" ->
                 \* response.json() raises: line 95
                 /\ resp' = Resp("raw", b)
                 /\ pc' = "responded"
                 /\ content' = content
            [] b.shape = "message" ->
                 \* no 'response' key: data is dumped as it came
                 /\ resp' = Resp("json", b)
                 /\ pc' = "responded"
                 /\ content' = content
            [] b.shape = "response" /\ b.rtype = "null" ->
                 \* line 55 returns None
                 /\ resp' = Resp("json", b)
                 /\ pc' = "responded"
                 /\ content' = content
            [] b.shape = "response" /\ b.rtype = "int" ->
                 \* the in test of line 58 raises TypeError: line 95
                 /\ resp' = Resp("raw", b)
                 /\ pc' = "responded"
                 /\ content' = content
            [] OTHER ->
                 /\ content' = b.text
                 /\ pc' = "cleaning"
                 /\ resp' = resp
  /\ UNCHANGED <<thinking_started, log, out, passes, fres>>
  /\ UNCHANGED <<netvars, streams>>

\* one iteration of the while loop of clean_response_content
CleanIter ==
  /\ pc = "cleaning"
  /\ BothTags(content)
  /\ LET next == StripSpan(content)
     IN  /\ Len(next) <= Len(content) \/ Len(next) <= MaxContentLen
         /\ content' = next
  /\ UNCHANGED <<pc, path, is_streaming, thinking_started, log, out, body,
                 resp, passes, fres>>
  /\ UNCHANGED <<netvars, streams>>

\* the loop is left; lines 64-65, 88-92
CleanReturn ==
  /\ pc = "cleaning"
  /\ path # "none"
  /\ ~BothTags(content)
  /\ resp' = Resp("json", [body EXCEPT !.text = CleanResult(content)])
  /\ pc' = "responded"
  /\ UNCHANGED <<path, is_streaming, thinking_started, log, out, body,
                 content, passes, fres>>
  /\ UNCHANGED <<netvars, streams>>

Next ==
  \/ NotFound
  \/ StartStream
  \/ GenerateChunk
  \/ GenerateEnd
  \/ NonStreaming
  \/ CleanIter
  \/ CleanReturn

Spec == Init /\ [][Next]_vars

(***************************************************************************)
(* process_thinking_content applied to one text in one state.              *)
(***************************************************************************)
InitFilter ==
  /\ pc = "filter"
  /\ path = "none"
  /\ is_streaming = TRUE
  /\ thinking_started \in BOOLEAN
  /\ log = << >>
  /\ out = << >>
  /\ body = NoBody
  /\ content \in FilterTexts
  /\ resp = Resp("none", NoBody)
  /\ passes = << >>
  /\ fres = NoRes
  /\ NetIdle

ApplyFilter ==
  /\ pc = "filter"
  /\ fres' = process_thinking_content(content, thinking_started)
  /\ pc' = "filtered"
  /\ UNCHANGED <<path, is_streaming, thinking_started, log, out, body,
                 content, resp, passes>>
  /\ UNCHANGED <<netvars, streams>>

NextFilter == ApplyFilter

SpecFilter == InitFilter /\ [][NextFilter]_vars

(***************************************************************************)
(* clean_response_content applied to a text and then to its own result.    *)
(***************************************************************************)
InitClean ==
  /\ pc = "cleaning"
  /\ path = "none"
  /\ is_streaming = FALSE
  /\ thinking_started = FALSE
  /\ log = << >>
  /\ out = << >>
  /\ body \in {Body("response", "str", t) : t \in CleanTexts}
  /\ content = body.text
  /\ resp = Resp("none", NoBody)
  /\ passes = << >>
  /\ fres = NoRes
  /\ NetIdle

\* a call returns; its result is the argument of the next call
CleanAgain ==
  /\ pc = "cleaning"
  /\ path = "none"
  /\ ~BothTags(content)
  /\ passes' = Append(passes, CleanResult(content))
  /\ content' = CleanResult(content)
  /\ pc' = IF Len(passes) = 1 THEN "cleaned" ELSE "cleaning"
  /\ UNCHANGED <<path, is_streaming, thinking_started, log, out, body, resp,
                 fres>>
  /\ UNCHANGED <<netvars, streams>>

NextClean ==
  \/ CleanIter
  \/ CleanAgain

SpecClean == InitClean /\ [][NextClean]_vars

(***************************************************************************)
(* clean_response_content statement by statement: the test of the while    *)
(* loop (line 58) and its body (lines 59-61) are steps of their own, so a  *)
(* loop that goes round without changing the text is a cycle of states.    *)
(* The interpreter keeps executing the loop: weak fairness of its steps.   *)
(***************************************************************************)
\* line 58
LoopTest ==
  /\ pc = "cleaning"
  /\ pc' = IF BothTags(content) THEN "stripping" ELSE "collapsing"
  /\ UNCHANGED <<path, is_streaming, thinking_started, log, out, body,
                 content, resp, passes, fres>>
  /\ UNCHANGED <<netvars, streams>>

\* lines 59-61
LoopBody ==
  /\ pc = "stripping"
  /\ \E next \in {StripSpan(content)} :
       /\ Len(next) <= Len(content) \/ Len(next) <= MaxContentLen
       /\ content' = next
  /\ pc' = "cleaning"
  /\ UNCHANGED <<path, is_streaming, thinking_started, log, out, body, resp,
                 passes, fres>>
  /\ UNCHANGED <<netvars, streams>>

\* lines 59-61 when the text grows beyond the lengths that are followed
LoopOutgrown ==
  /\ pc = "stripping"
  /\ \E next \in {StripSpan(content)} :
       /\ Len(next) > Len(content)
       /\ Len(next) > MaxContentLen
  /\ pc' = "outgrown"
  /\ UNCHANGED <<path, is_streaming, thinking_started, log, out, body,
                 content, resp, passes, fres>>
  /\ UNCHANGED <<netvars, streams>>

\* lines 64-65, and line 55 for an empty text
LoopReturn ==
  /\ pc = "collapsing"
  /\ \E result \in {CleanResult(content)} : passes' = Append(passes, result)
  /\ pc' = "returned"
  /\ UNCHANGED <<path, is_streaming, thinking_started, log, out, body,
                 content, resp, fres>>
  /\ UNCHANGED <<netvars, streams>>

NextLoop ==
  \/ LoopTest
  \/ LoopBody
  \/ LoopOutgrown
  \/ LoopReturn

SpecCleanLoop ==
  /\ InitClean
  /\ [][NextLoop]_vars
  /\ WF_vars(LoopTest)
  /\ WF_vars(LoopBody)
  /\ WF_vars(LoopOutgrown)

(***************************************************************************)
(* proxy_api with its two connections: the upstream one opened by          *)
(* requests.post and the downstream one the Response is written to.        *)
(*   up_conn "none"      no request was made                               *)
(*           "refused"   requests.post raised (no upstream response)       *)
(*           "open"      the streamed body is being read                   *)
(*           "closed"    the upstream ended the body                       *)
(*           "broken"    the connection failed in the middle of the body   *)
(*           "released"  the connection was given back or dropped          *)
(*   pc      "failed"    the view raised: the framework answers 500        *)
(*           "closed"    the server closed the generator at a yield        *)
(***************************************************************************)
\* response.status_code of the upstream
UpstreamStatuses == {200, 404, 500}

\* {"error":"..."}: the JSON object the upstream answers an error with
ErrorLine == Line("json", "compact", Data("obj", "absent", "absent", EMPTY, FALSE))

ErrorBody == Body("error", "null", EMPTY)

\* the lines the upstream sends in this specification
NetChunks ==
  {ContentLine(T_a), ContentLine(OPEN_TAG), DoneLine("compact"), ErrorLine}

\* the non-streaming bodies of this specification
NetBodies ==
  {Body("response", "str", T_a \o <<NL>>), ErrorBody,
   Body("notjson", "null", EMPTY)}

\* lines 77-81: requests.post raises (connection refused, or the body of a
\* stream=False request breaks off); no handler catches it, the framework
\* answers 500
NetPostFails ==
  /\ pc = "start"
  /\ \E p \in {"generate", "chat"} : path' = p
  /\ is_streaming' \in BOOLEAN
  /\ posts' = posts + 1
  /\ up_conn' = "refused"
  /\ status' = 500
  /\ pc' = "failed"
  /\ UNCHANGED <<thinking_started, log, out, body, content, resp, passes,
                 fres, up_status, client, streams>>

\* lines 73-81, 97-99 and 132-141: the response headers of the upstream
\* arrived; the Response of lines 132-141 names no status, which is 200
NetPostStreaming ==
  /\ pc = "start"
  /\ \E p \in {"generate", "chat"} : path' = p
  /\ is_streaming' = TRUE
  /\ posts' = posts + 1
  /\ up_status' \in UpstreamStatuses
  /\ up_conn' = "open"
  /\ status' = 200
  /\ thinking_started' = FALSE
  /\ pc' = "streaming"
  /\ UNCHANGED <<log, out, body, content, resp, passes, fres, client,
                 streams>>

\* lines 73-95: a stream=False request; the body was read whole and the
\* connection went back to the pool
NetNonStreaming ==
  /\ pc = "start"
  /\ \E p \in {"generate", "chat"} : path' = p
  /\ is_streaming' = FALSE
  /\ posts' = posts + 1
  /\ up_status' \in UpstreamStatuses
  /\ up_conn' = "released"
  /\ \E b \in NetBodies :
       /\ body' = b
       /\ resp' = CASE b.shape = "notjson" -> Resp("raw", b)
                    [] b.shape = "response" ->
                         Resp("json", [b EXCEPT !.text = CleanResult(b.text)])
                    [] OTHER -> Resp("json", b)
       \* line 95 hands the upstream status on; line 89 names none
       /\ status' = IF b.shape = "notjson" THEN up_status' ELSE 200
  /\ pc' = "responded"
  /\ UNCHANGED <<thinking_started, log, out, content, passes, fres, client,
                 streams>>

\* one iteration of the for loop, lines 100-130, on a line read from the
\* upstream.  The generator learns that the client is gone only when the
\* server fails to write what was yielded and closes it; a write to a
\* connection the peer has just left can still succeed.
NetChunk ==
  /\ pc = "streaming"
  /\ up_conn = "open"
  /\ Len(log) < MaxNetRecords
  /\ \E chunk \in NetChunks :
       \E o \in {GenerateStep(chunk, thinking_started)} :
         \E noticed \in IF o.act = "emit" /\ client = "gone"
                        THEN BOOLEAN ELSE {FALSE} :
           /\ log' = Append(log, [line |-> chunk, before |-> thinking_started,
                                  after |-> o.thinking, act |-> o.act,
                                  retained |-> o.retained])
           /\ thinking_started' = o.thinking
           /\ out' = IF o.act = "emit"
                     THEN Append(out, [src |-> Len(log) + 1, line |-> o.line,
                                       nl |-> 1])
                     ELSE out
           /\ pc' = IF o.act = "raise" THEN "crashed"
                    ELSE IF noticed THEN "closed" ELSE "streaming"
  /\ UNCHANGED <<path, is_streaming, body, content, resp, passes, fres,
                 netvars, streams>>

\* the upstream ends the body
UpstreamClose ==
  /\ pc = "streaming"
  /\ up_conn = "open"
  /\ up_conn' = "closed"
  /\ UNCHANGED <<pc, path, is_streaming, thinking_started, log, out, body,
                 content, resp, passes, fres, posts, up_status, client,
                 status, streams>>

\* the upstream connection fails in the middle of the body
UpstreamError ==
  /\ pc = "streaming"
  /\ up_conn = "open"
  /\ up_conn' = "broken"
  /\ UNCHANGED <<pc, path, is_streaming, thinking_started, log, out, body,
                 content, resp, passes, fres, posts, up_status, client,
                 status, streams>>

\* the downstream client leaves
ClientDisconnect ==
  /\ pc = "streaming"
  /\ client = "here"
  /\ client' = "gone"
  /\ UNCHANGED <<pc, path, is_streaming, thinking_started, log, out, body,
                 content, resp, passes, fres, posts, up_status, up_conn,
                 status, streams>>

\* line 100: iter_lines is exhausted, the generator returns and the server
\* ends the response
NetEnd ==
  /\ pc = "streaming"
  /\ up_conn = "closed"
  /\ pc' = "done"
  /\ UNCHANGED <<path, is_streaming, thinking_started, log, out, body,
                 content, resp, passes, fres, netvars, streams>>

\* what was yielded is taken back when the read fails
NetAbortRollback ==
  /\ pc = "streaming"
  /\ up_conn = "broken"
  /\ pc' = "crashed"
  /\ out' = << >>
  /\ UNCHANGED <<path, is_streaming, thinking_started, log, body, content,
                 resp, passes, fres, netvars, streams>>

\* line 100: iter_lines raises on the broken connection; the for statement
\* is outside the try, the exception leaves the generator and the server
\* drops the response
NetAbort ==
  /\ pc = "streaming"
  /\ up_conn = "broken"
  /\ pc' = "crashed"
  /\ UNCHANGED <<path, is_streaming, thinking_started, log, out, body,
                 content, resp, passes, fres, netvars, streams>>

\* no line of the source closes response: the connection goes when the
\* generator, closed or crashed, is collected with the response it holds
NetRelease ==
  /\ pc \in {"closed", "crashed", "done"}
  /\ up_conn \in {"open", "closed", "broken"}
  /\ up_conn' = "released"
  /\ UNCHANGED <<pc, path, is_streaming, thinking_started, log, out, body,
                 content, resp, passes, fres, posts, up_status, client,
                 status, streams>>

NextNet ==
  \/ NetPostFails
  \/ NetPostStreaming
  \/ NetNonStreaming
  \/ NetChunk
  \/ UpstreamClose
  \/ UpstreamError
  \/ ClientDisconnect
  \/ NetEnd
  \/ NetAbort
  \/ NetRelease

\* the server keeps asking the generator for its next item, and a read on
\* an ended or broken connection returns at once
SpecNet ==
  /\ Init
  /\ [][NextNet]_vars
  /\ WF_vars(NetEnd)
  /\ WF_vars(NetAbort)

(***************************************************************************)
(* Two streaming requests served at the same time.  Each call of proxy_api *)
(* defines its own generate(), whose thinking_started is a local variable  *)
(* of that generator (line 99); the module holds no other mutable state.   *)
(* streams is [flag, gen]: flag[c] is the value of flag cell c and gen[s]  *)
(* is [pc, log, out] of generator s, log being the lines it has read.      *)
(***************************************************************************)
StreamIds == {1, 2}

\* the lines the upstream sends on either stream
TwoChunks ==
  {ContentLine(T_a), ContentLine(OPEN_TAG), ContentLine(CLOSE_TAG \o T_b),
   DoneLine("compact")}

\* one flag for every generator
FlagCellShared(s) == 1

\* the cell that holds thinking_started of generator s: its own local
FlagCell(s) == s

onevars ==
  <<pc, path, is_streaming, thinking_started, log, out, body, content, resp,
    passes, fres>>

InitTwo ==
  /\ pc = "two"
  /\ path = "none"
  /\ is_streaming = TRUE
  /\ thinking_started = FALSE
  /\ log = << >>
  /\ out = << >>
  /\ body = NoBody
  /\ content = EMPTY
  /\ resp = Resp("none", NoBody)
  /\ passes = << >>
  /\ fres = NoRes
  /\ posts = 0
  /\ up_status = 0
  /\ up_conn = "none"
  /\ client = "here"
  /\ status = 0
  /\ streams = [flag |-> [c \in StreamIds |-> FALSE],
                gen |-> [s \in StreamIds |->
                           [pc |-> "start", log |-> << >>, out |-> << >>]]]

\* lines 97-99: the generator of request s starts
TwoStart(s) ==
  /\ streams.gen[s].pc = "start"
  /\ streams' = [streams EXCEPT !.flag[FlagCell(s)] = FALSE,
                                !.gen[s].pc = "streaming"]
  /\ UNCHANGED <<onevars, netvars>>

\* one iteration of the for loop of generator s, lines 100-130
TwoChunk(s) ==
  /\ streams.gen[s].pc = "streaming"
  /\ Len(streams.gen[s].log) < MaxTwoRecords
  /\ \E chunk \in TwoChunks :
       \E o \in {GenerateStep(chunk, streams.flag[FlagCell(s)])} :
         streams' =
           [streams EXCEPT
              !.flag[FlagCell(s)] = o.thinking,
              !.gen[s].log = Append(@, chunk),
              !.gen[s].out =
                 IF o.act = "emit"
                 THEN Append(@, [src |-> Len(streams.gen[s].log) + 1,
                                 line |-> o.line, nl |-> 1])
                 ELSE @,
              !.gen[s].pc = IF o.act = "raise" THEN "crashed" ELSE @]
  /\ UNCHANGED <<onevars, netvars>>

\* iter_lines of generator s is exhausted
TwoEnd(s) ==
  /\ streams.gen[s].pc = "streaming"
  /\ streams' = [streams EXCEPT !.gen[s].pc = "done"]
  /\ UNCHANGED <<onevars, netvars>>

NextTwo ==
  \E s \in StreamIds :
    \/ TwoStart(s)
    \/ TwoChunk(s)
    \/ TwoEnd(s)

SpecTwo == InitTwo /\ [][NextTwo]_vars

(***************************************************************************)
(* Vocabulary of the properties.                                           *)
(***************************************************************************)
\* the line decoded to a record with a str at message.content
IsContentStr(line) ==
  /\ line.kind = "json"
  /\ line.data.top = "obj"
  /\ line.data.msg = "obj"
  /\ line.data.ctype = "str"

\* the line decoded to a JSON value without the message.content path
LacksContentPath(line) ==
  /\ line.kind = "json"
  /\ ~(line.data.top = "obj" /\ line.data.msg = "obj"
         /\ line.data.ctype # "absent")

\* the indices of out that were yielded for chunk i
EmittedFor(i) == {j \in 1..Len(out) : out[j].src = i}

\* chunk i was yielded as it came, followed by one newline
ForwardedRaw(i) ==
  \E j \in EmittedFor(i) : out[j].line = log[i].line /\ out[j].nl = 1

RECURSIVE ConcatMap(_, _, _)
\* concatenation of Op(seq[k]) for k = from..Len(seq)
ConcatMap(Op(_), seq, from) ==
  IF from > Len(seq) THEN EMPTY
  ELSE Op(seq[from]) \o ConcatMap(Op, seq, from + 1)

OriginalText(entry) == entry.line.data.text

RetainedText(entry) == entry.retained

EmittedText(entry) == entry.line.data.text

\* the text with every <think>...</think> span removed, a span running
\* from an opening marker to the first closing marker after it
RECURSIVE RemoveSpans(_)
RemoveSpans(s) ==
  LET i == Find(s, OPEN_TAG)
      k == IF i = -1 THEN -1 ELSE FindFrom(s, CLOSE_TAG, i + Len(OPEN_TAG))
  IN  IF i = -1 \/ k = -1 THEN s
      ELSE Slice(s, 0, i) \o RemoveSpans(SliceFrom(s, k + Len(CLOSE_TAG)))

\* every marker of s belongs to a span: no closing marker outside a span,
\* no opening marker left open
NoStrayMarker(s) ==
  LET r == RemoveSpans(s)
  IN  ~Contains(r, OPEN_TAG) /\ ~Contains(r, CLOSE_TAG)

\* an opening marker followed later by a closing marker
HasSpan(s) ==
  \E i \in 0..Len(s) :
    /\ StartsAt(s, i, OPEN_TAG)
    /\ FindFrom(s, CLOSE_TAG, i + Len(OPEN_TAG)) # -1

(***************************************************************************)
(* C1.  For a finished stream of content fragments without code fences,    *)
(* fed from state Normal, the concatenation of the retained texts equals   *)
(* the concatenation of the original texts with every <think>...</think>   *)
(* span removed.  Stated for streams whose markers all belong to spans.    *)
(***************************************************************************)
C1_RetainedIsTextWithoutSpans ==
  ( /\ pc = "done"
    /\ \A i \in 1..Len(log) :
         IsContentStr(log[i].line) /\ ~Contains(log[i].line.data.text, FENCE)
    /\ NoStrayMarker(ConcatMap(OriginalText, log, 1)) )
  => ConcatMap(RetainedText, log, 1)
       = RemoveSpans(ConcatMap(OriginalText, log, 1))

(***************************************************************************)
(* C2.  Fed "a<thi" and then "nk>secret</think>b" from state Normal, the   *)
(* stream's concatenated retained output is "ab".                          *)
(***************************************************************************)
C2_SplitMarkerRecognised ==
  ( /\ Len(log) = 2
    /\ log[1].line = ContentLine(T_thi)
    /\ log[2].line = ContentLine(T_nk) )
  => ConcatMap(EmittedText, out, 1) = T_a \o T_b

(***************************************************************************)
(* C3.  No yielded content record carries an empty or white-space-only     *)
(* message.content; a content record whose retained text is empty or       *)
(* white space yields nothing; in particular a marker-free fragment read   *)
(* in thinking mode yields nothing.                                        *)
(***************************************************************************)
C3_Suppression ==
  /\ \A j \in 1..Len(out) :
       IsContentStr(out[j].line) => Strip(out[j].line.data.text) # EMPTY
  /\ \A i \in 1..Len(log) :
       IsContentStr(log[i].line) =>
         /\ Strip(log[i].retained) = EMPTY => EmittedFor(i) = {}
         /\ ( /\ log[i].before
              /\ ~Contains(log[i].line.data.text, OPEN_TAG)
              /\ ~Contains(log[i].line.data.text, CLOSE_TAG) )
            => EmittedFor(i) = {}

\* a white-space fragment and a fragment wholly inside a thinking span were
\* both dropped, and the stream went on to yield the text after the span
C3_Witness ==
  /\ Len(log) = 3
  /\ log[1].line = ContentLine(OPEN_TAG)
  /\ log[2].line = ContentLine(T_secret)
  /\ log[2].before
  /\ log[3].line = ContentLine(T_nk)
  /\ Len(out) = 1
  /\ out[1].src = 3
  /\ out[1].line.data.text = T_b

(***************************************************************************)
(* C4.  A decoded record without the message.content path is yielded       *)
(* byte for byte as it came, plus one newline, in either filter state, and *)
(* leaves the filter state as it was.                                      *)
(***************************************************************************)
C4_PassThrough ==
  \A i \in 1..Len(log) :
    LacksContentPath(log[i].line) =>
      /\ ForwardedRaw(i)
      /\ Cardinality(EmittedFor(i)) = 1
      /\ log[i].after = log[i].before

(***************************************************************************)
(* C5.  Of N upstream records of which M were suppressed, exactly N - M    *)
(* are yielded, each for a distinct input record, in input order.          *)
(***************************************************************************)
C5_OrderPreserved ==
  /\ Len(out) = Len(log) - Cardinality({i \in 1..Len(log) : log[i].act = "skip"})
  /\ \A j, k \in 1..Len(out) : j < k => out[j].src < out[k].src

(***************************************************************************)
(* C6.  A line that does not decode as JSON is yielded unchanged plus a    *)
(* newline, leaves the filter state as it was, and does not end the        *)
(* stream.                                                                 *)
(***************************************************************************)
C6_MalformedLineForwarded ==
  \A i \in 1..Len(log) :
    log[i].line.kind \in {"notjson", "badutf8"} =>
      /\ ForwardedRaw(i)
      /\ log[i].after = log[i].before
      /\ log[i].act # "raise"

(***************************************************************************)
(* C7.  No error raised while handling a record that decoded as JSON ends  *)
(* the stream: the record is forwarded or suppressed and the loop goes on. *)
(***************************************************************************)
C7_NoFatalErrorOnJsonRecord ==
  \A i \in 1..Len(log) :
    log[i].line.kind = "json" =>
      /\ log[i].act # "raise"
      /\ pc # "crashed"

(***************************************************************************)
(* C8.  clean_response_content applied to its own result returns that      *)
(* result.                                                                 *)
(***************************************************************************)
C8_CleanIdempotent ==
  Len(passes) = 2 => passes[2] = passes[1]

\* a text with a well-formed span was cleaned twice
C8_Witness ==
  /\ pc = "cleaned"
  /\ body.text = T_span \o T_span
  /\ passes = <<T_b \o T_b, T_b \o T_b>>

(***************************************************************************)
(* C9.  The text payload of a non-streaming response, of the generate and  *)
(* of the chat endpoint, contains no opening marker followed later by a    *)
(* closing marker.                                                         *)
(***************************************************************************)
C9_NonStreamingHasNoSpan ==
  ( /\ pc = "responded"
    /\ ~is_streaming
    /\ resp.kind = "json"
    /\ resp.body.rtype = "str" )
  => ~HasSpan(resp.body.text)

(***************************************************************************)
(* C10.  When the text holds a fenced block, the filter's result is its    *)
(* result on the trimmed text between the first opening fence (with its    *)
(* optional json tag) and the closing fence that follows, so the retained  *)
(* text is a piece of that block and nothing outside it is kept; in state  *)
(* Normal the fenced {"x":1} yields {"x":1}.                               *)
(***************************************************************************)
\* the offsets <<j, k>> of the block's content: j follows the first fence
\* and its tag, k is where the next fence begins
FencedBlocks(s) ==
  {jk \in (0..Len(s)) \X (0..Len(s)) :
     \E i \in 0..Len(s) :
       /\ StartsAt(s, i, FENCE)
       /\ \A h \in 0..(i - 1) : ~StartsAt(s, h, FENCE)
       /\ jk[1] = i + Len(FENCE)
                    + (IF StartsAt(s, i + Len(FENCE), JSON_TAG)
                       THEN Len(JSON_TAG) ELSE 0)
       /\ jk[2] >= jk[1]
       /\ StartsAt(s, jk[2], FENCE)
       /\ \A h \in jk[1]..(jk[2] - 1) : ~StartsAt(s, h, FENCE)}

IsPieceOf(t, s) == \E a \in 0..Len(s) : StartsAt(s, a, t)

C10_FenceUnwrap ==
  pc = "filtered" =>
    /\ \A jk \in FencedBlocks(content) :
         LET inner == Strip(Slice(content, jk[1], jk[2]))
         IN  /\ fres = process_thinking_content(inner, thinking_started)
             /\ IsPieceOf(fres.text, inner)
    /\ (content = T_fenced /\ ~thinking_started) => fres.text = T_x1

\* the fenced {"x":1} was filtered in state Normal
C10_Witness ==
  /\ pc = "filtered"
  /\ content = T_fenced
  /\ ~thinking_started
  /\ FencedBlocks(content) # {}
  /\ fres = [text |-> T_x1, thinking |-> FALSE]

(***************************************************************************)
(* C11.  Applied to an empty or white-space-only text, the filter returns  *)
(* the empty string and the state it was given.                            *)
(***************************************************************************)
C11_BlankTextGivesEmpty ==
  (pc = "filtered" /\ Strip(content) = EMPTY) =>
    /\ fres.text = EMPTY
    /\ fres.thinking = thinking_started

\* C11 as amended: the state is returned as given; the retained text is
\* the empty string for an empty text and in thinking mode, and the text
\* itself, which is empty once trimmed, in state Normal
C11_BlankTextKeepsState ==
  (pc = "filtered" /\ Strip(content) = EMPTY) =>
    /\ fres.thinking = thinking_started
    /\ Strip(fres.text) = EMPTY
    /\ (content = EMPTY \/ thinking_started) => fres.text = EMPTY
    /\ ~thinking_started => fres.text = content

\* a white-space-only text was filtered in state Normal and came back as
\* it was
C11_Witness ==
  /\ pc = "filtered"
  /\ content = <<" ", NL>>
  /\ ~thinking_started
  /\ fres = [text |-> <<" ", NL>>, thinking |-> FALSE]

(***************************************************************************)
(* C12.  An upstream line that is empty or holds only white space yields   *)
(* nothing downstream and leaves the filter state as it was.               *)
(***************************************************************************)
C12_BlankLineSkipped ==
  \A i \in 1..Len(log) :
    log[i].line.kind \in {"empty", "space"} =>
      /\ EmittedFor(i) = {}
      /\ log[i].after = log[i].before

(***************************************************************************)
(* C17.  When the fence-unwrapped text of a fragment holds an opening      *)
(* marker, in either state, the retained text is what precedes the first   *)
(* opening marker and the state becomes InsideThinking, even when a        *)
(* closing marker follows in the fragment; the marker-free fragments that  *)
(* come next yield nothing until a fragment carries a closing marker.      *)
(***************************************************************************)
\* the text the marker rules work on: the trimmed content of the first
\* fenced block when there is one, else the text itself
FenceOffsets(t) == {i \in 0..(Len(t) - Len(FENCE)) : StartsAt(t, i, FENCE)}

\* the offsets <<j, k>> of the content of the first fenced block of t,
\* given the offsets at which t holds a fence
FirstBlock(t, offs) ==
  {jk \in (0..Len(t)) \X offs :
     \E i \in offs :
       /\ \A h \in offs : i <= h
       /\ jk[1] = i + Len(FENCE)
                    + (IF StartsAt(t, i + Len(FENCE), JSON_TAG)
                       THEN Len(JSON_TAG) ELSE 0)
       /\ jk[2] >= jk[1]
       /\ \A h \in offs : h >= jk[1] => jk[2] <= h}

InnerOf(t, blocks) ==
  IF blocks = {} THEN t
  ELSE Strip(Slice(t, (CHOOSE jk \in blocks : TRUE)[1],
                      (CHOOSE jk \in blocks : TRUE)[2]))

WorkText(t) == InnerOf(t, FirstBlock(t, FenceOffsets(t)))

\* t is w up to its first occurrence of the marker m
IsBeforeFirst(t, w, m) ==
  \E p \in 0..Len(w) :
    /\ StartsAt(w, p, m)
    /\ \A q \in 0..(p - 1) : ~StartsAt(w, q, m)
    /\ t = Slice(w, 0, p)

\* t is w from the end of its last occurrence of the marker m
IsAfterLast(t, w, m) ==
  \E p \in 0..Len(w) :
    /\ StartsAt(w, p, m)
    /\ \A q \in (p + 1)..Len(w) : ~StartsAt(w, q, m)
    /\ t = SliceFrom(w, p + Len(m))

HasClosing(entry) ==
  IsContentStr(entry.line) /\ Contains(entry.line.data.text, CLOSE_TAG)

MarkerFree(entry) ==
  /\ IsContentStr(entry.line)
  /\ ~Contains(entry.line.data.text, OPEN_TAG)
  /\ ~Contains(entry.line.data.text, CLOSE_TAG)

C17_OpeningMarkerFirst ==
  \A i \in 1..Len(log) :
    \A w \in {IF IsContentStr(log[i].line)
               THEN WorkText(log[i].line.data.text) ELSE EMPTY} :
      ( /\ IsContentStr(log[i].line)
        /\ log[i].line.data.text # EMPTY
        /\ Contains(w, OPEN_TAG) )
      => /\ log[i].after
         /\ IsBeforeFirst(log[i].retained, w, OPEN_TAG)
         /\ \A j \in (i + 1)..Len(log) :
              ( /\ \A k \in (i + 1)..j : ~HasClosing(log[k])
                /\ MarkerFree(log[j]) )
              => EmittedFor(j) = {}

\* a whole span with text behind it arrived in one fragment: nothing of it
\* was kept, and the text of the next fragment was dropped too
C17_Witness ==
  /\ Len(log) = 2
  /\ log[1].line = ContentLine(T_span)
  /\ ~log[1].before
  /\ log[1].after
  /\ log[1].retained = EMPTY
  /\ log[2].line = ContentLine(T_a)
  /\ out = << >>

(***************************************************************************)
(* C18.  When the text of a fragment holds a closing marker and no opening *)
(* marker, in either state, the retained text is what follows the last     *)
(* closing marker and the state becomes Normal.                            *)
(***************************************************************************)
C18_ClosingMarkerRule ==
  ( /\ pc = "filtered"
    /\ Contains(content, CLOSE_TAG)
    /\ ~Contains(content, OPEN_TAG) )
  => /\ IsAfterLast(fres.text, content, CLOSE_TAG)
     /\ ~fres.thinking

\* C18 as amended: the text meant is the text left by the fence unwrap
C18_ClosingMarkerRuleUnfenced ==
  \A w \in {WorkText(content)} :
    ( /\ pc = "filtered"
      /\ Contains(w, CLOSE_TAG)
      /\ ~Contains(w, OPEN_TAG) )
    => /\ IsAfterLast(fres.text, w, CLOSE_TAG)
       /\ ~fres.thinking

\* in thinking mode a text with two closing markers was filtered: what
\* follows the second one was kept and the state went back to Normal
C18_Witness ==
  /\ pc = "filtered"
  /\ thinking_started
  /\ content = CLOSE_TAG \o T_a \o CLOSE_TAG \o T_space \o T_a
  /\ fres = [text |-> T_space \o T_a, thinking |-> FALSE]

(***************************************************************************)
(* C20.  When the state is InsideThinking as a content fragment arrives    *)
(* and the fragment holds no closing marker, nothing is emitted for the    *)
(* fragment, also when the fragment holds another opening marker.          *)
(***************************************************************************)
C20_NoLeakWhileThinking ==
  \A i \in 1..Len(log) :
    ( /\ IsContentStr(log[i].line)
      /\ log[i].before
      /\ ~Contains(OriginalText(log[i]), CLOSE_TAG) )
    => EmittedFor(i) = {}

(***************************************************************************)
(* C19.  For every text, a text whose closing marker comes before its      *)
(* first opening marker included, the loop of clean_response_content is    *)
(* left, and lines 64-65 then return the result.  A text that outgrows     *)
(* MaxContentLen is not held against the statement.                        *)
(***************************************************************************)
C19_CleanTerminates == <>(pc \in {"collapsing", "returned", "outgrown"})

(***************************************************************************)
(* C13.  When the upstream request fails, or the upstream answers with an  *)
(* error status, before any body data, the request was sent exactly once   *)
(* and the client gets a failed response: an error status, the upstream's  *)
(* own when the upstream gave one.  Streaming and non-streaming alike.     *)
(***************************************************************************)
C13_UpstreamFailureSurfaced ==
  (pc # "start" /\ (up_conn = "refused" \/ up_status >= 400)) =>
    /\ posts = 1
    /\ status >= 400
    /\ up_status >= 400 => status = up_status

(***************************************************************************)
(* C15.  When the upstream connection closes or breaks in the middle of a  *)
(* stream, the generator eventually ends and with it the downstream        *)
(* response; what was yielded is never taken back, and at the end every    *)
(* record read before the close whose iteration decided to emit has its    *)
(* line among the yielded ones.                                            *)
(***************************************************************************)
C15_UpstreamEndEndsStream ==
  /\ (pc = "streaming" /\ up_conn \in {"closed", "broken"})
       ~> (pc \in {"done", "crashed"})
  /\ [][Len(out') >= Len(out) /\ SubSeq(out', 1, Len(out)) = out]_vars
  /\ [](pc \in {"done", "crashed"} =>
          \A i \in 1..Len(log) : log[i].act = "emit" => EmittedFor(i) # {})

\* the stream ended on a connection that broke after a record was emitted
C15_Witness ==
  /\ pc = "crashed"
  /\ up_conn = "broken"
  /\ Len(log) >= 1
  /\ out # << >>

(***************************************************************************)
(* C16.  Once the downstream client is gone, no further record is read     *)
(* from the upstream.                                                      *)
(***************************************************************************)
C16_NoReadAfterDisconnect == [][client = "gone" => log' = log]_vars

(***************************************************************************)
(* C14.  Under every interleaving of two concurrent streams, the lines     *)
(* yielded on a stream and its filter state are those the stream has when  *)
(* it reads the same lines alone, starting in state Normal, whatever the   *)
(* other stream reads.                                                     *)
(***************************************************************************)
RECURSIVE RunAlone(_, _, _, _)
\* what the iteration on lines[k] adds to a run of one generator alone
RunAloneNext(lines, k, acc, o) ==
  RunAlone(lines, k + 1, o.thinking,
           IF o.act = "emit"
           THEN Append(acc, [src |-> k, line |-> o.line, nl |-> 1])
           ELSE acc)

\* the flag and the yielded lines of one generator that reads lines[k..]
RunAlone(lines, k, thinking, acc) ==
  IF k > Len(lines) THEN [thinking |-> thinking, out |-> acc]
  ELSE RunAloneNext(lines, k, acc, GenerateStep(lines[k], thinking))

C14_StreamsIsolated ==
  \A s \in StreamIds :
    streams.gen[s].pc # "start" =>
      \A alone \in {RunAlone(streams.gen[s].log, 1, FALSE, << >>)} :
        /\ streams.gen[s].out = alone.out
        /\ streams.flag[FlagCell(s)] = alone.thinking

\* both streams are being served, the first inside a thinking span while
\* the second has yielded a content record
C14_Witness ==
  /\ streams.gen[1].pc = "streaming"
  /\ streams.gen[2].pc = "streaming"
  /\ streams.flag[FlagCell(1)]
  /\ ~streams.flag[FlagCell(2)]
  /\ streams.gen[1].log # << >>
  /\ \E j \in 1..Len(streams.gen[2].out) :
       IsContentStr(streams.gen[2].out[j].line)

====
